---------------------------- MODULE Spec2Model ----------------------------
(***************************************************************************)
(* ParkingLotDFA (src/app.py): a parking-lot gate modelled as a DFA with a *)
(* capacity-bounded registry of the cars inside, two counters and a log.   *)
(*                                                                         *)
(* The engine's fields are the variables.  Every method is a pure operator *)
(* on an engine record (reset, transition, add_car, remove_car,            *)
(* log_attempt), translated statement by statement; the actions apply the  *)
(* operators to the current engine.                                        *)
(*                                                                         *)
(* Left out, because no field of the engine depends on them: the text      *)
(* printed by print(), the wall-clock "timestamp" of a log entry, and the  *)
(* blocking time.sleep(timer_delay) between CarEnters and Timer.           *)
(***************************************************************************)
EXTENDS Integers, Sequences, FiniteSets, TLC

VARIABLES
    current_state,      \* self.current_state
    cars_inside_list,   \* self.cars_inside_list
    total_accepted,     \* self.total_accepted
    total_rejected,     \* self.total_rejected
    log,                \* self.log
    capacity,           \* self.capacity
    last,               \* history: the last operation, its inputs, the engine before it
    automaton,          \* self.states, alphabet, start_state, accept_states, transition_function
    entry_outcomes,     \* history: entry workflows that ended in a terminal outcome
    direct_calls,       \* history: reset() and transition() calls made directly
    since_reset,        \* history: symbols that went through the automaton since the last reset()
    exits_removed       \* history: exits that took a car off the registry

vars == <<current_state, cars_inside_list, total_accepted, total_rejected,
          log, capacity, last, automaton, entry_outcomes, direct_calls,
          since_reset, exits_removed>>

---------------------------------------------------------------------------
(* Bounds of the model *)

MaxCapacity == 2     \* capacities 1..MaxCapacity
MaxLog == 10         \* the workflows stop once the log is this long
MaxRejected == 2     \* ... or total_rejected this high
MaxDirect == 3       \* direct reset()/transition() calls in a run

---------------------------------------------------------------------------
(* The automaton definition, __init__ *)

states == {"IDLE", "CHECK_TOKEN", "OPEN_GATE", "CLOSE_GATE", "ACCEPT", "REJECT"}

alphabet == {"CarArrives", "ValidToken", "InvalidToken", "CarEnters", "Timer", "CarExits"}

start_state == "IDLE"

accept_states == {"ACCEPT"}

\* (mutant of transition_function: an edge from OPEN_GATE straight to ACCEPT)
transition_function_shortcut ==
    (<<"IDLE", "CarArrives">> :> "CHECK_TOKEN") @@
    (<<"CHECK_TOKEN", "ValidToken">> :> "OPEN_GATE") @@
    (<<"CHECK_TOKEN", "InvalidToken">> :> "REJECT") @@
    (<<"OPEN_GATE", "CarEnters">> :> "CLOSE_GATE") @@
    (<<"OPEN_GATE", "Timer">> :> "ACCEPT") @@
    (<<"CLOSE_GATE", "Timer">> :> "ACCEPT")

\* (mutant of transition_function: the next car may arrive in ACCEPT)
transition_function_restart ==
    (<<"IDLE", "CarArrives">> :> "CHECK_TOKEN") @@
    (<<"ACCEPT", "CarArrives">> :> "CHECK_TOKEN") @@
    (<<"CHECK_TOKEN", "ValidToken">> :> "OPEN_GATE") @@
    (<<"CHECK_TOKEN", "InvalidToken">> :> "REJECT") @@
    (<<"OPEN_GATE", "CarEnters">> :> "CLOSE_GATE") @@
    (<<"CLOSE_GATE", "Timer">> :> "ACCEPT")

transition_function ==
    (<<"IDLE", "CarArrives">> :> "CHECK_TOKEN") @@
    (<<"CHECK_TOKEN", "ValidToken">> :> "OPEN_GATE") @@
    (<<"CHECK_TOKEN", "InvalidToken">> :> "REJECT") @@
    (<<"OPEN_GATE", "CarEnters">> :> "CLOSE_GATE") @@
    (<<"CLOSE_GATE", "Timer">> :> "ACCEPT")

(* Python's None and the empty string are both falsy and both logged as    *)
(* "N/A"; the code never tells them apart, and "" stands for both.         *)
NoCarId == ""

(* Inputs.  car_id and token_status are read as input().strip(): the       *)
(* values range over stripped strings, the empty one included.             *)
CarIds == {NoCarId, "A", "B"}

TokenInputs == {"ValidToken", "InvalidToken", "CarExits"}

(* Symbols of direct transition() calls: the alphabet and one outsider. *)
Symbols == alphabet \cup {"Bogus"}

---------------------------------------------------------------------------
(* Helpers for Python's list and truthiness *)

Range(s) == {s[i] : i \in 1..Len(s)}

\* (mutant of Truthy: `not car_id` written for `car_id`)
Truthy_inverted(car_id) == car_id = NoCarId

\* `car_id` used as a condition (`and car_id`, `if car_id`)
Truthy(car_id) == car_id # NoCarId

\* `car_id in self.cars_inside_list`
IsInside(e, car_id) == car_id \in Range(e.cars_inside_list)

\* (mutant of list_remove: list.pop() written for list.remove(x))
list_remove_pop(s, x) == SubSeq(s, 1, Len(s) - 1)

\* (mutant of list_remove: every occurrence of x removed)
list_remove_all(s, x) == SelectSeq(s, LAMBDA y : y # x)

\* list.remove(x): removes the first occurrence of x
RECURSIVE list_remove(_, _)
list_remove(s, x) ==
    IF s = <<>> THEN <<>>
    ELSE IF Head(s) = x THEN Tail(s)
    ELSE <<Head(s)>> \o list_remove(Tail(s), x)

\* (mutant of IsFull: `>` written for `>=`)
IsFull_strict(e) == Len(e.cars_inside_list) > e.capacity

\* `len(self.cars_inside_list) >= self.capacity`
IsFull(e) == Len(e.cars_inside_list) >= e.capacity

\* the engine as one record
self ==
    [current_state    |-> current_state,
     cars_inside_list |-> cars_inside_list,
     total_accepted   |-> total_accepted,
     total_rejected   |-> total_rejected,
     log              |-> log,
     capacity         |-> capacity]

---------------------------------------------------------------------------
(* Methods *)

\* (mutant of log_attempt: the log assigned, not appended to)
log_attempt_assign(e, symbol, car_id) ==
    [e EXCEPT !.log =
        <<[car_id      |-> IF Truthy(car_id) THEN car_id ELSE "N/A",
           symbol      |-> symbol,
           state       |-> e.current_state,
           cars_inside |-> Len(e.cars_inside_list)]>>]

log_attempt(e, symbol, car_id) ==
    [e EXCEPT !.log = Append(@,
        [car_id      |-> IF Truthy(car_id) THEN car_id ELSE "N/A",
         symbol      |-> symbol,
         state       |-> e.current_state,
         cars_inside |-> Len(e.cars_inside_list)])]

\* (mutant of reset: the state register left as it is)
reset_skipped(e) == e

reset(e) == [e EXCEPT !.current_state = start_state]

\* the token read by add_car: anything but the two token symbols becomes InvalidToken
token_status_of(input) ==
    IF input \notin {"ValidToken", "InvalidToken"} THEN "InvalidToken" ELSE input

\* (mutant of transition: a pair missing from the table rejects without being counted)
transition_miss_uncounted(e, symbol, car_id) ==
    IF symbol = "CarExits" /\ Truthy(car_id) THEN
        LET e1 == IF IsInside(e, car_id)
                  THEN [e EXCEPT !.cars_inside_list = list_remove(@, car_id)]
                  ELSE e
        IN  log_attempt(e1, symbol, car_id)
    ELSE IF symbol = "CarArrives" /\ IsFull(e) THEN
        LET e1 == [e EXCEPT !.current_state = "REJECT"]
            e2 == log_attempt(e1, symbol, car_id)
        IN  [e2 EXCEPT !.total_rejected = @ + 1]
    ELSE IF symbol \notin alphabet THEN
        LET e1 == [e EXCEPT !.current_state = "REJECT"]
            e2 == log_attempt(e1, symbol, car_id)
        IN  [e2 EXCEPT !.total_rejected = @ + 1]
    ELSE IF <<e.current_state, symbol>> \in DOMAIN transition_function THEN
        LET e1 == [e EXCEPT !.current_state = transition_function[<<e.current_state, symbol>>]]
            e2 == IF e1.current_state = "ACCEPT" /\ Truthy(car_id)
                  THEN [e1 EXCEPT !.cars_inside_list = Append(@, car_id),
                                  !.total_accepted = @ + 1]
                  ELSE e1
        IN  log_attempt(e2, symbol, car_id)
    ELSE
        LET e1 == [e EXCEPT !.current_state = "REJECT"]
        IN  log_attempt(e1, symbol, car_id)

transition(e, symbol, car_id) ==
    IF symbol = "CarExits" /\ Truthy(car_id) THEN
        \* exit a car
        LET e1 == IF IsInside(e, car_id)
                  THEN [e EXCEPT !.cars_inside_list = list_remove(@, car_id)]
                  ELSE e
        IN  log_attempt(e1, symbol, car_id)
    ELSE IF symbol = "CarArrives" /\ IsFull(e) THEN
        \* car arrives, check capacity
        LET e1 == [e EXCEPT !.current_state = "REJECT"]
            e2 == log_attempt(e1, symbol, car_id)
        IN  [e2 EXCEPT !.total_rejected = @ + 1]
    ELSE IF symbol \notin alphabet THEN
        \* invalid input
        LET e1 == [e EXCEPT !.current_state = "REJECT"]
            e2 == log_attempt(e1, symbol, car_id)
        IN  [e2 EXCEPT !.total_rejected = @ + 1]
    ELSE IF <<e.current_state, symbol>> \in DOMAIN transition_function THEN
        LET e1 == [e EXCEPT !.current_state = transition_function[<<e.current_state, symbol>>]]
            e2 == IF e1.current_state = "ACCEPT" /\ Truthy(car_id)
                  THEN [e1 EXCEPT !.cars_inside_list = Append(@, car_id),
                                  !.total_accepted = @ + 1]
                  ELSE e1
        IN  log_attempt(e2, symbol, car_id)
    ELSE
        LET e1 == [e EXCEPT !.current_state = "REJECT",
                            !.total_rejected = @ + 1]
        IN  log_attempt(e1, symbol, car_id)

\* (mutant of add_car: the already-inside guard missing)
add_car_unguarded(e, car_id, token_input) ==
    IF IsFull(e) THEN
        [e EXCEPT !.total_rejected = @ + 1]
    ELSE
        LET token_status == token_status_of(token_input)
            e1 == reset(e)
            e2 == transition(e1, "CarArrives", car_id)
            e3 == transition(e2, token_status, car_id)
        IN  IF e3.current_state = "REJECT" THEN e3
            ELSE LET e4 == transition(e3, "CarEnters", car_id)
                 IN  transition(e4, "Timer", car_id)

\* (mutant of add_car: the test for REJECT after the token missing)
add_car_nostop(e, car_id, token_input) ==
    IF IsFull(e) THEN
        [e EXCEPT !.total_rejected = @ + 1]
    ELSE IF IsInside(e, car_id) THEN
        e
    ELSE
        LET token_status == token_status_of(token_input)
            e1 == reset(e)
            e2 == transition(e1, "CarArrives", car_id)
            e3 == transition(e2, token_status, car_id)
            e4 == transition(e3, "CarEnters", car_id)
        IN  transition(e4, "Timer", car_id)

(* add_car returns at the capacity check before it reads car_id, and at    *)
(* the already-inside check before it reads the token: the inputs not     *)
(* read play no part in those branches.  The closing test against         *)
(* accept_states only chooses the text printed.                           *)
add_car(e, car_id, token_input) ==
    IF IsFull(e) THEN
        [e EXCEPT !.total_rejected = @ + 1]
    ELSE IF IsInside(e, car_id) THEN
        e
    ELSE
        LET token_status == token_status_of(token_input)
            e1 == reset(e)
            e2 == transition(e1, "CarArrives", car_id)
            e3 == transition(e2, token_status, car_id)
        IN  IF e3.current_state = "REJECT" THEN e3
            ELSE LET e4 == transition(e3, "CarEnters", car_id)
                 IN  transition(e4, "Timer", car_id)

\* remove_car returns before reading car_id when the lot is empty
remove_car(e, car_id) ==
    IF e.cars_inside_list = <<>> THEN e
    ELSE transition(e, "CarExits", car_id)

---------------------------------------------------------------------------
(* The state machine *)

Engine(c) ==
    [current_state    |-> start_state,
     cars_inside_list |-> <<>>,
     total_accepted   |-> 0,
     total_rejected   |-> 0,
     log              |-> <<>>,
     capacity         |-> c]

\* the automaton definition __init__ stores in the object
AutomatonDef ==
    [states              |-> states,
     alphabet            |-> alphabet,
     start_state         |-> start_state,
     accept_states       |-> accept_states,
     transition_function |-> transition_function]

\* the whole object: the engine's fields and the automaton definition
Object == [engine |-> self, automaton |-> automaton]

WithinBounds(e) == Len(e.log) <= MaxLog /\ e.total_rejected <= MaxRejected

Becomes(e) ==
    /\ current_state' = e.current_state
    /\ cars_inside_list' = e.cars_inside_list
    /\ total_accepted' = e.total_accepted
    /\ total_rejected' = e.total_rejected
    /\ log' = e.log
    /\ capacity' = e.capacity

Is(e) ==
    /\ current_state = e.current_state
    /\ cars_inside_list = e.cars_inside_list
    /\ total_accepted = e.total_accepted
    /\ total_rejected = e.total_rejected
    /\ log = e.log
    /\ capacity = e.capacity

Call(op, car_id, symbol, pre) ==
    [op |-> op, car_id |-> car_id, symbol |-> symbol, pre |-> pre]

\* the symbols of the log entries that took engine e to engine f
NewSymbols(e, f) ==
    [i \in 1..(Len(f.log) - Len(e.log)) |-> f.log[Len(e.log) + i].symbol]

\* transition() takes its exit branch and returns before the automaton is consulted
ExitPath(symbol, car_id) == symbol = "CarExits" /\ Truthy(car_id)

\* that branch takes a car off the registry
ExitRemoves(e, symbol, car_id) == ExitPath(symbol, car_id) /\ IsInside(e, car_id)

\* add_car gets as far as its reset() call
RunsAutomaton(e, car_id) == ~IsFull(e) /\ ~IsInside(e, car_id)

\* the engine right after ParkingLotDFA(capacity=c)
Init ==
    /\ \E c \in 1..MaxCapacity : Is(Engine(c))
    /\ last = Call("init", NoCarId, "", self)
    /\ automaton = AutomatonDef
    /\ entry_outcomes = 0
    /\ direct_calls = 0
    /\ since_reset = <<>>
    /\ exits_removed = 0

\* an entry workflow ends in a terminal outcome unless the already-inside guard stopped it
TerminalOutcome(e, car_id) == IsFull(e) \/ ~IsInside(e, car_id)

AddCar ==
    \E car_id \in CarIds, token_input \in TokenInputs :
        /\ WithinBounds(add_car(self, car_id, token_input))
        /\ Becomes(add_car(self, car_id, token_input))
        /\ last' = Call("add_car", car_id, token_input, self)
        /\ entry_outcomes' = entry_outcomes + (IF TerminalOutcome(self, car_id) THEN 1 ELSE 0)
        /\ since_reset' = IF RunsAutomaton(self, car_id)
                          THEN NewSymbols(self, add_car(self, car_id, token_input))
                          ELSE since_reset
        /\ UNCHANGED <<automaton, direct_calls, exits_removed>>

RemoveCar ==
    \E car_id \in CarIds :
        /\ WithinBounds(remove_car(self, car_id))
        /\ Becomes(remove_car(self, car_id))
        /\ last' = Call("remove_car", car_id, "CarExits", self)
        /\ since_reset' = IF cars_inside_list = <<>> \/ ExitPath("CarExits", car_id)
                          THEN since_reset
                          ELSE Append(since_reset, "CarExits")
        /\ exits_removed' = exits_removed
                            + (IF ExitRemoves(self, "CarExits", car_id) THEN 1 ELSE 0)
        /\ UNCHANGED <<automaton, entry_outcomes, direct_calls>>

Reset ==
    /\ direct_calls < MaxDirect
    /\ Becomes(reset(self))
    /\ last' = Call("reset", NoCarId, "", self)
    /\ direct_calls' = direct_calls + 1
    /\ since_reset' = <<>>
    /\ UNCHANGED <<automaton, entry_outcomes, exits_removed>>

Transition ==
    \E symbol \in Symbols, car_id \in CarIds :
        /\ direct_calls < MaxDirect
        /\ Becomes(transition(self, symbol, car_id))
        /\ last' = Call("transition", car_id, symbol, self)
        /\ direct_calls' = direct_calls + 1
        /\ since_reset' = IF ExitPath(symbol, car_id)
                          THEN since_reset
                          ELSE Append(since_reset, symbol)
        /\ exits_removed' = exits_removed
                            + (IF ExitRemoves(self, symbol, car_id) THEN 1 ELSE 0)
        /\ UNCHANGED <<automaton, entry_outcomes>>

\* the menu of main(): the entry and the exit workflow
Next == AddCar \/ RemoveCar

Spec == Init /\ [][Next]_vars

(* The queries of the menu.  Each reads fields of the object and prints;   *)
(* none assigns a field, so the object after the call is the object       *)
(* before it.                                                              *)

\* show_states prints self.states
show_states(o) == o

\* show_alphabet prints self.alphabet
show_alphabet(o) == o

\* show_transition_table iterates over self.transition_function.items()
show_transition_table(o) == o

\* (mutant of show_log: the entries taken off the log as they are printed)
show_log_draining(o) == [o EXCEPT !.engine.log = <<>>]

\* show_log iterates over self.log
show_log(o) == o

\* show_stats prints capacity, the registry, the spaces left and both counters
show_stats(o) == o

Query(op, o) ==
    /\ Becomes(o.engine)
    /\ automaton' = o.automaton
    /\ last' = Call(op, NoCarId, "", self)
    /\ UNCHANGED <<entry_outcomes, direct_calls, since_reset, exits_removed>>

ShowStates == Query("show_states", show_states(Object))

ShowAlphabet == Query("show_alphabet", show_alphabet(Object))

ShowTransitionTable == Query("show_transition_table", show_transition_table(Object))

ShowLog == Query("show_log", show_log(Object))

ShowStats == Query("show_stats", show_stats(Object))

\* the whole menu of main(): choices 1 to 7
NextMenu ==
    \/ ShowStates
    \/ ShowAlphabet
    \/ ShowTransitionTable
    \/ AddCar
    \/ RemoveCar
    \/ ShowLog
    \/ ShowStats

SpecMenu == Init /\ [][NextMenu]_vars

(* The engine's API called directly.  A run starts from an engine the menu *)
(* has left behind: constructed, and k cars admitted one after the other   *)
(* by the entry workflow (k = 0 is the engine right after construction).   *)
FillOrder == <<"A", "B">>

RECURSIVE Filled(_, _)
Filled(c, k) ==
    IF k = 0 THEN Engine(c)
    ELSE add_car(Filled(c, k - 1), FillOrder[k], "ValidToken")

\* how many cars of FillOrder a lot of capacity c takes
MaxFill(c) == IF c < Len(FillOrder) THEN c ELSE Len(FillOrder)

InitDirect ==
    /\ \E c \in 1..MaxCapacity :
          \E k \in 0..MaxFill(c) :
              /\ Is(Filled(c, k))
              /\ since_reset = IF k = 0 THEN <<>>
                               ELSE NewSymbols(Filled(c, k - 1), Filled(c, k))
    /\ last = Call("init", NoCarId, "", self)
    /\ automaton = AutomatonDef
    /\ entry_outcomes = Len(cars_inside_list)
    /\ direct_calls = 0
    /\ exits_removed = 0

NextDirect == Reset \/ Transition

SpecDirect == InitDirect /\ [][NextDirect]_vars

(* The same API, with runs that also start in the middle of a car's entry: *)
(* after the k admissions a direct caller has called reset() and the first *)
(* j - 1 symbols of an entry for car PartialId (j = 0: no such calls).     *)
PartialSymbols == <<"CarArrives", "ValidToken", "CarEnters">>

PartialId == "A"

RECURSIVE Partial(_, _)
Partial(e, j) ==
    IF j = 0 THEN e
    ELSE IF j = 1 THEN reset(e)
    ELSE transition(Partial(e, j - 1), PartialSymbols[j - 1], PartialId)

InitGate ==
    /\ \E c \in 1..MaxCapacity :
          \E k \in 0..MaxFill(c) :
              \E j \in 0..(Len(PartialSymbols) + 1) :
                  /\ Is(Partial(Filled(c, k), j))
                  /\ since_reset =
                        IF j > 0 THEN SubSeq(PartialSymbols, 1, j - 1)
                        ELSE IF k = 0 THEN <<>>
                        ELSE NewSymbols(Filled(c, k - 1), Filled(c, k))
    /\ last = Call("init", NoCarId, "", self)
    /\ automaton = AutomatonDef
    /\ entry_outcomes = total_accepted
    /\ direct_calls = 0
    /\ exits_removed = 0

SpecGate == InitGate /\ [][NextDirect]_vars

---------------------------------------------------------------------------
(* Properties *)

Pre == last.pre

EntryWorkflow == last.op = "add_car"

ExitWorkflow == last.op = "remove_car"

NoDuplicates(s) == \A i, j \in 1..Len(s) : s[i] = s[j] => i = j

\* s without the entries equal to x, the others in their order
Without(s, x) == SelectSeq(s, LAMBDA y : y # x)

RegistryUnchanged == cars_inside_list = Pre.cars_inside_list

\* the last entry of the log
LastEntry == log[Len(log)]

\* exactly one entry was appended to the log by the last operation
OneEntryAppended == log = Append(Pre.log, LastEntry)

\* C1: under entry and exit workflows the registry never holds more cars
\* than the capacity.
C1_OccupancyWithinCapacity == Len(cars_inside_list) <= capacity

\* an entry workflow was run against a full lot
C1_Witness ==
    /\ EntryWorkflow
    /\ IsFull(Pre)
    /\ Len(cars_inside_list) = capacity

\* C2: under entry and exit workflows no identifier is in the registry
\* twice, and an entry workflow for an identifier already inside admits
\* nothing.
C2_NoDuplicateCar ==
    /\ NoDuplicates(cars_inside_list)
    /\ (EntryWorkflow /\ IsInside(Pre, last.car_id)) =>
          (RegistryUnchanged /\ total_accepted = Pre.total_accepted)

\* an entry workflow was run for a car already inside a lot with a free slot
C2_Witness ==
    /\ EntryWorkflow
    /\ ~IsFull(Pre)
    /\ IsInside(Pre, last.car_id)

\* C3: with a free slot, an entry workflow for a car not inside whose token
\* input is anything but ValidToken ends in REJECT, with the registry and
\* total_accepted unchanged and total_rejected one higher.
C3_InvalidTokenRejected ==
    (EntryWorkflow /\ ~IsFull(Pre) /\ ~IsInside(Pre, last.car_id)
        /\ last.symbol # "ValidToken") =>
        /\ current_state = "REJECT"
        /\ RegistryUnchanged
        /\ total_accepted = Pre.total_accepted
        /\ total_rejected = Pre.total_rejected + 1

\* such a workflow was run with a token input that is no token symbol
C3_Witness ==
    /\ EntryWorkflow
    /\ ~IsFull(Pre)
    /\ ~IsInside(Pre, last.car_id)
    /\ last.symbol \notin {"ValidToken", "InvalidToken"}
    /\ Truthy(last.car_id)

\* C4: total_accepted + total_rejected is the number of entry workflows
\* that ended in a terminal outcome, whatever exits happened, and neither
\* counter ever decreases.
C4_OutcomesCounted ==
    /\ total_accepted + total_rejected = entry_outcomes
    /\ total_accepted >= Pre.total_accepted
    /\ total_rejected >= Pre.total_rejected

\* C5: an entry attempt against a full lot (the entry workflow, or a direct
\* transition(CarArrives, car_id)) leaves the registry and total_accepted
\* alone, adds one to total_rejected and appends one log entry, which
\* records the rejected arrival.
C5_FullLotRejectLogged ==
    (/\ \/ EntryWorkflow
        \/ last.op = "transition" /\ last.symbol = "CarArrives"
     /\ IsFull(Pre)) =>
        /\ RegistryUnchanged
        /\ total_accepted = Pre.total_accepted
        /\ total_rejected = Pre.total_rejected + 1
        /\ Len(log) = Len(Pre.log) + 1
        /\ OneEntryAppended
        /\ LastEntry.symbol = "CarArrives"
        /\ LastEntry.state = "REJECT"

\* C6: with a free slot, an entry workflow with ValidToken for a non-empty
\* identifier that is not inside ends in ACCEPT with the identifier last in
\* the registry, total_accepted one higher and total_rejected unchanged.
C6_ValidEntryAdmitted ==
    (EntryWorkflow /\ ~IsFull(Pre) /\ ~IsInside(Pre, last.car_id)
        /\ Truthy(last.car_id) /\ last.symbol = "ValidToken") =>
        /\ current_state = "ACCEPT"
        /\ cars_inside_list = Append(Pre.cars_inside_list, last.car_id)
        /\ total_accepted = Pre.total_accepted + 1
        /\ total_rejected = Pre.total_rejected

\* a car was admitted right after an exit had freed a slot of a full lot
C6_Witness ==
    /\ EntryWorkflow
    /\ Truthy(last.car_id)
    /\ last.symbol = "ValidToken"
    /\ current_state = "ACCEPT"
    /\ Len(Pre.log) >= 2
    /\ Pre.log[Len(Pre.log)].symbol = "CarExits"
    /\ Pre.log[Len(Pre.log)].cars_inside = capacity - 1
    /\ Pre.log[Len(Pre.log) - 1].cars_inside = capacity

\* C7: after every entry workflow, the car was admitted (the registry grew
\* by its identifier and total_accepted by one) if and only if the current
\* state is ACCEPT.
C7_AcceptIffAdmitted ==
    EntryWorkflow =>
        ((/\ cars_inside_list = Append(Pre.cars_inside_list, last.car_id)
          /\ total_accepted = Pre.total_accepted + 1)
         <=> current_state = "ACCEPT")

C9_AbsentExitLogged ==
    (ExitWorkflow /\ Truthy(last.car_id) /\ ~IsInside(Pre, last.car_id)) =>
        /\ RegistryUnchanged
        /\ current_state = Pre.current_state
        /\ total_accepted = Pre.total_accepted
        /\ total_rejected = Pre.total_rejected
        /\ Len(log) = Len(Pre.log) + 1
        /\ OneEntryAppended
        /\ LastEntry.symbol = "CarExits"
        /\ LastEntry.cars_inside = Len(Pre.cars_inside_list)

Queries == {"show_states", "show_alphabet", "show_transition_table", "show_log", "show_stats"}

\* C11: a query operation changes no field of the engine (current state,
\* registry, counters, log, capacity) and never the automaton definition,
\* in any state the menu reaches.
C11_QueriesReadOnly ==
    /\ automaton = AutomatonDef
    /\ last.op \in Queries => self = Pre

\* the log was shown with entries in it and a car inside
C11_Witness ==
    /\ last.op = "show_log"
    /\ log # <<>>
    /\ cars_inside_list # <<>>
    /\ total_rejected > 0

\* the last operation was a direct transition() call
TransitionCall == last.op = "transition"

\* the last operation admitted a car
Admitted ==
    \/ Len(cars_inside_list) > Len(Pre.cars_inside_list)
    \/ total_accepted > Pre.total_accepted

Terminal == {"ACCEPT", "REJECT"}

\* C12: the registry and total_accepted grow only by a Timer transition
\* taken in CLOSE_GATE that lands on ACCEPT, and then by one car, the
\* call's; the symbols that went through the automaton since the last
\* reset() are then CarArrives, ValidToken, CarEnters, Timer, in that order.
C12_AdmittedOnlyByTimer ==
    Admitted =>
        /\ TransitionCall
        /\ last.symbol = "Timer"
        /\ Pre.current_state = "CLOSE_GATE"
        /\ current_state = "ACCEPT"
        /\ cars_inside_list = Append(Pre.cars_inside_list, last.car_id)
        /\ total_accepted = Pre.total_accepted + 1
        /\ since_reset = <<"CarArrives", "ValidToken", "CarEnters", "Timer">>

\* a car was admitted by the third of three direct transition calls
C12_Witness ==
    /\ Admitted
    /\ TransitionCall
    /\ direct_calls = 3
    /\ Len(since_reset) = 4

\* C13: a transition call in REJECT leaves the state REJECT, and a
\* transition call in ACCEPT or REJECT leaves it in ACCEPT or REJECT and
\* admits no car: only reset() leads out of the terminal states.
C13_TerminalNeedsReset ==
    (TransitionCall /\ Pre.current_state \in Terminal) =>
        /\ current_state \in Terminal
        /\ Pre.current_state = "REJECT" => current_state = "REJECT"
        /\ ~Admitted

\* in REJECT, a car's arrival was sent to a lot with a free slot
C13_Witness ==
    /\ TransitionCall
    /\ Pre.current_state = "REJECT"
    /\ last.symbol = "CarArrives"
    /\ ~IsFull(Pre)
    /\ current_state = "REJECT"

\* C14: a transition call that does not take the exit branch and whose
\* symbol is outside the alphabet, or whose (state, symbol) pair is not in
\* the transition table, ends in REJECT with total_rejected one higher, the
\* registry and total_accepted unchanged and one entry appended to the log.
C14_DisallowedRejected ==
    (/\ TransitionCall
     /\ ~ExitPath(last.symbol, last.car_id)
     /\ \/ last.symbol \notin alphabet
        \/ <<Pre.current_state, last.symbol>> \notin DOMAIN transition_function) =>
        /\ current_state = "REJECT"
        /\ total_rejected = Pre.total_rejected + 1
        /\ total_accepted = Pre.total_accepted
        /\ RegistryUnchanged
        /\ Len(log) = Len(Pre.log) + 1
        /\ OneEntryAppended
        /\ LastEntry.symbol = last.symbol
        /\ LastEntry.state = "REJECT"

\* a symbol of the alphabet was sent in a state that has no edge for it
C14_Witness ==
    /\ TransitionCall
    /\ last.symbol = "Timer"
    /\ Pre.current_state = "OPEN_GATE"
    /\ current_state = "REJECT"
    /\ total_rejected = Pre.total_rejected + 1

\* C15: an entry workflow that gets past its guards issues CarArrives and
\* the token symbol; if the token leaves the automaton in REJECT it stops
\* there, after exactly those two transition calls, and else it goes on
\* with CarEnters and Timer, four calls in that order.  (Each transition
\* call appends one log entry, so the entries appended are the calls.)
C15_WorkflowStopsOnReject ==
    (EntryWorkflow /\ RunsAutomaton(Pre, last.car_id)) =>
        /\ last.symbol # "ValidToken" =>
              /\ NewSymbols(Pre, self) = <<"CarArrives", "InvalidToken">>
              /\ current_state = "REJECT"
        /\ last.symbol = "ValidToken" =>
              /\ NewSymbols(Pre, self) = <<"CarArrives", "ValidToken", "CarEnters", "Timer">>
              /\ current_state = "ACCEPT"

\* a workflow was stopped by its token with a car already inside
C15_Witness ==
    /\ EntryWorkflow
    /\ RunsAutomaton(Pre, last.car_id)
    /\ last.symbol = "InvalidToken"
    /\ Len(log) = Len(Pre.log) + 2
    /\ cars_inside_list # <<>>

\* C16 as claimed: a transition call with symbol CarExits, whatever its
\* car_id (present, absent, empty or omitted), leaves the current state and
\* both counters unchanged.
C16_ExitsLeaveAutomaton ==
    (TransitionCall /\ last.symbol = "CarExits") =>
        /\ current_state = Pre.current_state
        /\ total_accepted = Pre.total_accepted
        /\ total_rejected = Pre.total_rejected

\* C16 as amended: a transition call with symbol CarExits and a non-empty
\* car_id, present or absent, leaves the current state and both counters
\* unchanged, whatever the current state.
C16_ExitPathLeavesAutomaton ==
    (TransitionCall /\ last.symbol = "CarExits" /\ last.car_id # "") =>
        /\ current_state = Pre.current_state
        /\ total_accepted = Pre.total_accepted
        /\ total_rejected = Pre.total_rejected

\* a car inside left while another car's entry was under way
C16_Witness ==
    /\ TransitionCall
    /\ last.symbol = "CarExits"
    /\ IsInside(Pre, last.car_id)
    /\ current_state \in {"CHECK_TOKEN", "OPEN_GATE", "CLOSE_GATE"}
    /\ Len(cars_inside_list) < Len(Pre.cars_inside_list)

\* C17: under direct reset() and transition() calls no identifier is in the
\* registry twice.
C17_NoDuplicateDirect ==
    \A i, j \in 1..Len(cars_inside_list) :
        i < j => cars_inside_list[i] # cars_inside_list[j]

\* C18: under direct reset() and transition() calls, in any order, the
\* registry never holds more cars than the capacity, and a car is admitted
\* only to a lot that had a free slot.
C18_CapacityDirect ==
    /\ Len(cars_inside_list) <= capacity
    /\ Admitted => Len(Pre.cars_inside_list) < capacity

\* a direct Timer call filled the last slot while another car was inside
C18_Witness ==
    /\ TransitionCall
    /\ Admitted
    /\ Len(cars_inside_list) = capacity
    /\ Len(cars_inside_list) = 2

\* C19: total_accepted is the registry size plus the number of exits that
\* removed a car; so the registry is never larger than total_accepted.
C19_AcceptedBalance ==
    /\ total_accepted = Len(cars_inside_list) + exits_removed
    /\ Len(cars_inside_list) <= total_accepted

\* a car was admitted after an exit had removed one
C19_Witness ==
    /\ TransitionCall
    /\ Admitted
    /\ exits_removed > 0

=============================================================================
